---- MODULE Spec2Model ----
(***************************************************************************)
(* KenKen as a constraint-satisfaction problem: the model compilers of     *)
(* kenken_csp.py (binary_ne_grid, nary_ad_grid, kenken_csp_model) and the  *)
(* ordering heuristics of heuristics.py (ord_dh, ord_mrv, val_lcv).        *)
(*                                                                         *)
(* Four specifications share the module:                                   *)
(*   SpecCage    the satisfying-tuple loop of one cage (lines 201-228)     *)
(*   SpecCompile kenken_csp_model, one puzzle row per step                 *)
(*   SpecGrid    binary_ne_grid and nary_ad_grid over one assignment       *)
(*   SpecHeur    a compiled Problem under search, with the heuristics      *)
(* Python lists are sequences; a Variable object is its index in a heap,   *)
(* so that two Variables of the same name and cell stay distinguishable.   *)
(***************************************************************************)
EXTENDS Integers, Sequences, FiniteSets, TLC

VARIABLES
    \* SpecCage: one cage being compiled
    varsDom, val, op, tIdx, satTuples, cpc,
    \* SpecCompile: kenken_csp_model
    kenken_grid, rowIdx, heap, vars, cons, csp, pc,
    \* SpecGrid: the two grid models over one assignment of the cells
    gridSize, asg, accB, accN,
    \* SpecHeur: a compiled Problem under search and the heuristic being called
    problem, assignedValue, curdom, hpc, lcv, ret, entry, assignError

cageState == <<varsDom, val, op, tIdx, satTuples, cpc>>
compileState == <<kenken_grid, rowIdx, heap, vars, cons, csp, pc>>
gridState == <<gridSize, asg, accB, accN>>
heurState == <<problem, assignedValue, curdom, hpc, lcv, ret, entry, assignError>>
allVars == <<cageState, compileState, gridState, heurState>>

(***************************************************************************)
(* Bounds of the model.                                                    *)
(***************************************************************************)
\* SpecCage: the largest grid size (cell domains are 1..N or a forced value)
MaxDom == 3
\* SpecCage: the most cells in a cage
MaxCage == 3
\* SpecCage: the largest cage target (targets are 0..MaxTarget)
MaxTarget == 6
\* SpecCompile: the largest grid size
MaxSize == 2
\* SpecCompile: the most rows after the size row
MaxRows == 2
\* SpecCompile: the largest cage target (targets are 1..MaxVal)
MaxVal == 2
\* SpecGrid: the largest grid size
MaxGrid == 2
\* SpecHeur: the most assignments plus prunings the search has in force
MaxOps == 1

(***************************************************************************)
(* Python and itertools helpers.                                           *)
(***************************************************************************)
RECURSIVE Cat(_)
Cat(ss) == IF ss = <<>> THEN <<>> ELSE Head(ss) \o Cat(Tail(ss))

RECURSIVE sum(_)
sum(t) == IF t = <<>> THEN 0 ELSE Head(t) + sum(Tail(t))

RECURSIVE prod(_)
prod(t) == IF t = <<>> THEN 1 ELSE Head(t) * prod(Tail(t))

RemoveAt(s, i) == SubSeq(s, 1, i - 1) \o SubSeq(s, i + 1, Len(s))

InSeq(x, s) == \E i \in 1..Len(s) : s[i] = x

Count(x, s) == Cardinality({i \in 1..Len(s) : s[i] = x})

\* dom = [i+1 for i in range(size)]
Dom(size) == [i \in 1..size |-> i]

\* itertools.product(*doms): lexicographic, the last position varying fastest
RECURSIVE product(_)
product(doms) ==
    IF doms = <<>> THEN << <<>> >>
    ELSE LET rest == product(Tail(doms))
             d == Head(doms)
         IN Cat([i \in 1..Len(d) |-> [j \in 1..Len(rest) |-> <<d[i]>> \o rest[j]]])

\* itertools.permutations(t): every ordering of the positions of t, k! of them,
\* equal values notwithstanding
RECURSIVE permutations(_)
permutations(t) ==
    IF t = <<>> THEN << <<>> >>
    ELSE Cat([i \in 1..Len(t) |->
            LET rest == permutations(RemoveAt(t, i))
            IN [j \in 1..Len(rest) |-> <<t[i]>> \o rest[j]]])

(***************************************************************************)
(* The cage arithmetic of kenken_csp_model.                                *)
(***************************************************************************)
\* the orderings a subtraction or division cage tries for one tuple
OrderingsPositional(t) == << t >>

Orderings(t) == permutations(t)

\* res = r[0]; for i in r[1:]: res -= i
RECURSIVE SubFold(_, _)
SubFold(res, r) == IF r = <<>> THEN res ELSE SubFold(res - Head(r), Tail(r))

SubResult(r) == SubFold(r[1], Tail(r))

\* res /= i is Python 3 true division.  The quotient is kept as an exact
\* fraction: for operands 1..9 and at most four cells every integer-valued
\* quotient is computed exactly by IEEE-754 doubles and every other quotient
\* differs from each integer by far more than the rounding error, so that
\* `res == val` on doubles and on fractions agree.
FloorDiv(q, i) == [num |-> (q.num \div q.den) \div i, den |-> 1]

TrueDiv(q, i) == [num |-> q.num, den |-> q.den * i]

RECURSIVE DivFold(_, _)
DivFold(res, r) == IF r = <<>> THEN res ELSE DivFold(TrueDiv(res, Head(r)), Tail(r))

DivResult(r) == DivFold([num |-> r[1], den |-> 1], Tail(r))

\* res == val for a quotient
QuotEq(q, v) == q.num = v * q.den

\* lines 209-214: one copy of t for every ordering that subtracts to v;
\* satTuples.append(t) sits inside the loop over the orderings, which has no break
SubAppended(t, v) ==
    LET rs == Orderings(t)
    IN Cat([j \in 1..Len(rs) |-> IF SubResult(rs[j]) = v THEN << t >> ELSE <<>>])

\* lines 216-221: likewise for division
DivAppended(t, v) ==
    LET rs == Orderings(t)
    IN Cat([j \in 1..Len(rs) |-> IF QuotEq(DivResult(rs[j]), v) THEN << t >> ELSE <<>>])

\* what one iteration of `for t in itertools.product(*varsDom)` appends
Appended(t, v, o) ==
    CASE o = 0 -> IF sum(t) = v THEN << t >> ELSE <<>>
      [] o = 1 -> SubAppended(t, v)
      [] o = 2 -> DivAppended(t, v)
      [] o = 3 -> IF prod(t) = v THEN << t >> ELSE <<>>
      [] OTHER -> <<>>

\* the list handed to add_satisfying_tuples for one cage
CageSatTuples(doms, v, o) ==
    LET ts == product(doms)
    IN Cat([j \in 1..Len(ts) |-> Appended(ts[j], v, o)])

(***************************************************************************)
(* The constraint model (cspbase): Variable, Constraint, CSP.              *)
(***************************************************************************)
\* Variable(name, domain); 'V{}{}'.format(i, j) is the pair <<i, j>>
Variable(name, domain) == [name |-> name, dom |-> domain]

\* Constraint(name, scope) followed by add_satisfying_tuples(sat); `kind` is
\* the prefix of the name ("Cage", "C")
Constraint(kind, scope, sat) == [kind |-> kind, scope |-> scope, sat |-> sat]

\* CSP(name)
CSP == [vars |-> <<>>, cons |-> <<>>]

add_var(p, v) == [p EXCEPT !.vars = Append(@, v)]

add_constraint(p, c) == [p EXCEPT !.cons = Append(@, c)]

RECURSIVE add_all_vars(_, _)
add_all_vars(p, vs) ==
    IF vs = <<>> THEN p ELSE add_all_vars(add_var(p, Head(vs)), Tail(vs))

RECURSIVE add_all_constraints(_, _)
add_all_constraints(p, cs) ==
    IF cs = <<>> THEN p
    ELSE add_all_constraints(add_constraint(p, Head(cs)), Tail(cs))

(***************************************************************************)
(* The compilers of kenken_csp.py.  A build state is the heap of Variable  *)
(* objects, the board `vars` (heap indices, vars[i][j] 1-based here) and   *)
(* the list `cons`.                                                        *)
(***************************************************************************)
\* lines 163-171 (and 40-48, 103-111): one Variable per cell, in row-major order
NewBoard(size) ==
    [heap |-> [k \in 1..(size * size) |->
                  Variable(<<((k - 1) \div size) + 1, ((k - 1) % size) + 1>>, Dom(size))],
     vars |-> [i \in 1..size |-> [j \in 1..size |-> (i - 1) * size + j]],
     cons |-> <<>>]

\* cell_i = (c // 10) - 1 and cell_j = (c % 10) - 1, 0-based as in the code
CellI(c) == (c \div 10) - 1

CellJ(c) == (c % 10) - 1

\* lines 180-184, with the row and column index exchanged
ForcedRowTransposed(st, cage) ==
    LET i == CellI(cage[1])
        j == CellJ(cage[1])
    IN [st EXCEPT !.heap = Append(@, Variable(<<i + 1, j + 1>>, << cage[2] >>)),
                  !.vars[j + 1][i + 1] = Len(st.heap) + 1]

\* lines 180-184: a forced cell gets a fresh Variable with the singleton domain
ForcedRow(st, cage) ==
    LET i == CellI(cage[1])
        j == CellJ(cage[1])
    IN [st EXCEPT !.heap = Append(@, Variable(<<i + 1, j + 1>>, << cage[2] >>)),
                  !.vars[i + 1][j + 1] = Len(st.heap) + 1]

\* lines 185-229: a cage over the Variables the board holds at this moment
CageRow(st, cage) ==
    LET n == Len(cage)
        cageVars == [k \in 1..(n - 2) |->
                        st.vars[CellI(cage[k]) + 1][CellJ(cage[k]) + 1]]
        doms == [k \in 1..(n - 2) |-> st.heap[cageVars[k]].dom]
        sat == CageSatTuples(doms, cage[n - 1], cage[n])
    IN [st EXCEPT !.cons = Append(@, Constraint("Cage", cageVars, sat))]

\* len(t) == len(set(t))
AllDiff(t) == Len(t) = Cardinality({t[i] : i \in 1..Len(t)})

\* helper_nary_ad_constraint(index, size, vars, isRowConstraints), index 1-based
helper_nary_ad_constraint(index, size, st, isRowConstraints) ==
    LET curVars == [k \in 1..size |->
                       IF isRowConstraints THEN st.vars[index][k] ELSE st.vars[k][index]]
        doms == [k \in 1..size |-> st.heap[curVars[k]].dom]
        ts == product(doms)
    IN Constraint("C", curVars, SelectSeq(ts, AllDiff))

\* lines 232-238 (and 115-121): the row, then the column constraint of each index
RECURSIVE NaryLines(_, _, _)
NaryLines(index, size, st) ==
    IF index > size THEN <<>>
    ELSE << helper_nary_ad_constraint(index, size, st, TRUE),
            helper_nary_ad_constraint(index, size, st, FALSE) >>
         \o NaryLines(index + 1, size, st)

\* lines 241-246 (and 61-66, 124-129)
BuildCSP(st) == add_all_constraints(add_all_vars(CSP, Cat(st.vars)), st.cons)

\* itertools.combinations(range(size), r=2), 1-based: lexicographic
combinations2(size) ==
    Cat([a \in 1..size |-> [b \in 1..(size - a) |-> << a, a + b >>]])

\* t[0] != t[1]
NotEqual(t) == t[1] # t[2]

\* lines 71-96 with the column case building the row's pairs as well
helper_binary_ne_rows_only(index, n, st, isRowConstraints) ==
    LET combs == combinations2(n)
    IN [m \in 1..Len(combs) |->
           LET v1 == st.vars[index][combs[m][1]]
               v2 == st.vars[index][combs[m][2]]
           IN Constraint("C", << v1, v2 >>,
                  SelectSeq(product(<< st.heap[v1].dom, st.heap[v2].dom >>), NotEqual))]

\* helper_binary_ne_constraint(index, size, vars, isRowConstraints), index 1-based
helper_binary_ne_constraint(index, n, st, isRowConstraints) ==
    LET combs == combinations2(n)
        item(k) == IF isRowConstraints THEN st.vars[index][k] ELSE st.vars[k][index]
    IN [m \in 1..Len(combs) |->
           LET v1 == item(combs[m][1])
               v2 == item(combs[m][2])
           IN Constraint("C", << v1, v2 >>,
                  SelectSeq(product(<< st.heap[v1].dom, st.heap[v2].dom >>), NotEqual))]

\* lines 52-58
RECURSIVE BinaryLines(_, _, _)
BinaryLines(index, n, st) ==
    IF index > n THEN <<>>
    ELSE helper_binary_ne_constraint(index, n, st, TRUE)
         \o helper_binary_ne_constraint(index, n, st, FALSE)
         \o BinaryLines(index + 1, n, st)

\* what a compiler returns: the Problem and the board, with the heap the
\* Variables live in
Returned(st) == [csp |-> BuildCSP(st), vars |-> st.vars, heap |-> st.heap]

binary_ne_grid(grid) ==
    LET st == NewBoard(grid[1][1])
    IN Returned([st EXCEPT !.cons = BinaryLines(1, grid[1][1], st)])

nary_ad_grid(grid) ==
    LET st == NewBoard(grid[1][1])
    IN Returned([st EXCEPT !.cons = NaryLines(1, grid[1][1], st)])

\* Constraint.check(vals): the values of the scope, in order, form a
\* satisfying tuple
check(c, vals) == InSeq(vals, c.sat)

\* lines 177-185: one row of the puzzle description
ProcessRow(st, cage) ==
    IF Len(cage) = 1 THEN st
    ELSE IF Len(cage) = 2 THEN ForcedRow(st, cage)
    ELSE CageRow(st, cage)

RECURSIVE ProcessRows(_, _, _)
ProcessRows(st, grid, k) ==
    IF k > Len(grid) THEN st
    ELSE ProcessRows(ProcessRow(st, grid[k]), grid, k + 1)

kenken_csp_model(grid) ==
    LET st == ProcessRows(NewBoard(grid[1][1]), grid, 1)
    IN Returned([st EXCEPT !.cons = @ \o NaryLines(1, grid[1][1], st)])

(***************************************************************************)
(* The state of a Problem under search (cspbase).  av[v] is the assigned   *)
(* value of Variable v, 0 for None; cd[v][i] tells whether the i-th value  *)
(* of v's domain is still in its current domain.                           *)
(***************************************************************************)
None == 0

is_assigned(av, v) == av[v] # None

\* Variable.cur_domain()
cur_domain(P, av, cd, v) ==
    IF is_assigned(av, v) THEN << av[v] >>
    ELSE LET d == P.heap[v].dom
             keep == SelectSeq([i \in 1..Len(d) |-> i], LAMBDA i : cd[v][i])
         IN [k \in 1..Len(keep) |-> d[keep[k]]]

\* Variable.cur_domain_size()
cur_domain_size(P, av, cd, v) ==
    IF is_assigned(av, v) THEN 1
    ELSE Cardinality({i \in 1..Len(cd[v]) : cd[v][i]})

\* Variable.in_cur_domain(value)
in_cur_domain(P, av, cd, v, x) ==
    IF is_assigned(av, v) THEN x = av[v]
    ELSE \E i \in 1..Len(P.heap[v].dom) : P.heap[v].dom[i] = x /\ cd[v][i]

\* Variable.assign(value) is refused (and changes nothing) when the Variable
\* is assigned already or the value is outside its current domain
assign_ok(P, av, cd, v, x) == ~is_assigned(av, v) /\ in_cur_domain(P, av, cd, v, x)

assign(P, av, cd, v, x) == IF assign_ok(P, av, cd, v, x) THEN [av EXCEPT ![v] = x] ELSE av

\* Variable.unassign(value)
unassign(av, v, x) == [av EXCEPT ![v] = None]

\* CSP.get_all_unasgn_vars(): in the order of add_var
get_all_unasgn_vars(P, av) == SelectSeq(P.csp.vars, LAMBDA v : ~is_assigned(av, v))

\* CSP.get_cons_with_var(var): in the order of add_constraint
get_cons_with_var(P, v) == SelectSeq(P.csp.cons, LAMBDA c : InSeq(v, c.scope))

\* Constraint.get_unasgn_vars(): in scope order
get_unasgn_vars(c, av) == SelectSeq(c.scope, LAMBDA v : ~is_assigned(av, v))

\* Constraint.has_support(var, val): some satisfying tuple gives var the value
\* and every scope Variable a value of its current domain
has_support(P, av, cd, c, v, x) ==
    \E m \in 1..Len(c.sat) :
        /\ \E k \in 1..Len(c.scope) : c.scope[k] = v /\ c.sat[m][k] = x
        /\ \A k \in 1..Len(c.scope) : in_cur_domain(P, av, cd, c.scope[k], c.sat[m][k])

(***************************************************************************)
(* The heuristics of heuristics.py.                                        *)
(***************************************************************************)
\* lines 32-36: the Variables one constraint contributes to curDegree
RECURSIVE SeenVars(_, _, _)
SeenVars(unasgnVars, v, seenVars) ==
    IF unasgnVars = <<>> THEN seenVars
    ELSE IF Head(unasgnVars) # v /\ ~InSeq(Head(unasgnVars), seenVars)
         THEN SeenVars(Tail(unasgnVars), v, Append(seenVars, Head(unasgnVars)))
         ELSE SeenVars(Tail(unasgnVars), v, seenVars)

\* lines 29-36: seenVars starts empty for every constraint
RECURSIVE CurDegree(_, _, _)
CurDegree(cs, v, av) ==
    IF cs = <<>> THEN 0
    ELSE Len(SeenVars(get_unasgn_vars(Head(cs), av), v, <<>>)) + CurDegree(Tail(cs), v, av)

\* lines 28-40
RECURSIVE DhLoop(_, _, _, _, _)
DhLoop(P, av, vs, maxDegree, var) ==
    IF vs = <<>> THEN var
    ELSE LET curDegree == CurDegree(get_cons_with_var(P, Head(vs)), Head(vs), av)
         IN IF curDegree > maxDegree
            THEN DhLoop(P, av, Tail(vs), curDegree, Head(vs))
            ELSE DhLoop(P, av, Tail(vs), maxDegree, var)

ord_dh(P, av) == DhLoop(P, av, get_all_unasgn_vars(P, av), -1, None)

\* float('inf')
Inf == [inf |-> TRUE, n |-> 0]

\* rv <= mrv
MrvNotWorse(rv, mrv) == mrv.inf \/ rv <= mrv.n

\* rv < mrv
MrvBetter(rv, mrv) == mrv.inf \/ rv < mrv.n

\* lines 48-52
RECURSIVE MrvLoop(_, _, _, _, _, _)
MrvLoop(P, av, cd, vs, mrv, var) ==
    IF vs = <<>> THEN var
    ELSE LET rv == cur_domain_size(P, av, cd, Head(vs))
         IN IF MrvBetter(rv, mrv)
            THEN MrvLoop(P, av, cd, Tail(vs), [inf |-> FALSE, n |-> rv], Head(vs))
            ELSE MrvLoop(P, av, cd, Tail(vs), mrv, var)

ord_mrv(P, av, cd) == MrvLoop(P, av, cd, get_all_unasgn_vars(P, av), Inf, None)

\* lines 63-65 for one adjV
RECURSIVE PrunedValues(_, _, _, _, _, _)
PrunedValues(P, av, cd, c, adjV, adjVals) ==
    IF adjVals = <<>> THEN 0
    ELSE (IF ~has_support(P, av, cd, c, adjV, Head(adjVals)) THEN 1 ELSE 0)
         + PrunedValues(P, av, cd, c, adjV, Tail(adjVals))

\* lines 62-65 for one constraint
RECURSIVE PrunedVars(_, _, _, _, _)
PrunedVars(P, av, cd, c, adjVs) ==
    IF adjVs = <<>> THEN 0
    ELSE PrunedValues(P, av, cd, c, Head(adjVs), cur_domain(P, av, cd, Head(adjVs)))
         + PrunedVars(P, av, cd, c, Tail(adjVs))

\* lines 60-65, run while var is assigned
RECURSIVE NumPruned(_, _, _, _)
NumPruned(P, av, cd, cs) ==
    IF cs = <<>> THEN 0
    ELSE PrunedVars(P, av, cd, Head(cs), get_unasgn_vars(Head(cs), av))
         + NumPruned(P, av, cd, Tail(cs))

\* line 67 left out
LcvUndoMissing(av, v, d) == av

\* line 67: var.unassign(d)
LcvUndo(av, v, d) == unassign(av, v, d)

\* a sort that puts an element before the elements of equal key
InsertBeforeEqual(s, x) ==
    LET p == Cardinality({i \in 1..Len(s) : s[i][2] < x[2]})
    IN SubSeq(s, 1, p) \o << x >> \o SubSeq(s, p + 1, Len(s))

\* sorted(valOrder, key=lambda x: x[1]) is stable: an element goes behind the
\* elements of smaller or equal key that precede it
InsertStable(s, x) ==
    LET p == Cardinality({i \in 1..Len(s) : s[i][2] <= x[2]})
    IN SubSeq(s, 1, p) \o << x >> \o SubSeq(s, p + 1, Len(s))

RECURSIVE SortInto(_, _)
SortInto(done, todo) ==
    IF todo = <<>> THEN done ELSE SortInto(InsertStable(done, Head(todo)), Tail(todo))

sorted(valOrder) == SortInto(<<>>, valOrder)

(***************************************************************************)
(* SpecCage: the loop of lines 203-227 over one cage, one tuple per step.  *)
(***************************************************************************)
\* the domains a cage cell can have in an N x N puzzle: the full domain, or
\* the singleton of a forced cell
CellDoms(N) == {Dom(N)} \cup {<< v >> : v \in 1..N}

CageIdle ==
    /\ varsDom = <<>> /\ val = 0 /\ op = 0 /\ tIdx = 0
    /\ satTuples = <<>> /\ cpc = "idle"

CompileIdle ==
    /\ kenken_grid = <<>> /\ rowIdx = 0 /\ heap = <<>> /\ vars = <<>>
    /\ cons = <<>> /\ csp = CSP /\ pc = "idle"

GridIdle == gridSize = 0 /\ asg = <<>> /\ accB = "idle" /\ accN = "idle"

NoLcv == [var |-> 0, doms |-> <<>>, i |-> 0, numPruned |-> 0, valOrder |-> <<>>]

NoEntry == [assignedValue |-> <<>>, curdom |-> <<>>]

NoRet == [fn |-> "none", var |-> 0, val |-> 0]

HeurIdle ==
    /\ problem = 0 /\ assignedValue = <<>> /\ curdom = <<>> /\ hpc = "off"
    /\ lcv = NoLcv /\ ret = NoRet /\ entry = NoEntry /\ assignError = FALSE

CageInit ==
    /\ \E N \in 1..MaxDom, k \in 1..MaxCage : varsDom \in [1..k -> CellDoms(N)]
    /\ val \in 0..MaxTarget
    /\ op \in 0..3
    /\ tIdx = 0
    /\ satTuples = <<>>
    /\ cpc = "loop"
    /\ CompileIdle /\ GridIdle /\ HeurIdle

CageTuple ==
    /\ cpc = "loop"
    /\ tIdx < Len(product(varsDom))
    /\ tIdx' = tIdx + 1
    /\ satTuples' = satTuples \o Appended(product(varsDom)[tIdx + 1], val, op)
    /\ UNCHANGED <<varsDom, val, op, cpc>>
    /\ UNCHANGED <<compileState, gridState, heurState>>

\* con.add_satisfying_tuples(satTuples)
CageAdd ==
    /\ cpc = "loop"
    /\ tIdx = Len(product(varsDom))
    /\ cpc' = "added"
    /\ UNCHANGED <<varsDom, val, op, tIdx, satTuples>>
    /\ UNCHANGED <<compileState, gridState, heurState>>

CageNext == CageTuple \/ CageAdd

SpecCage == CageInit /\ [][CageNext]_allVars

(***************************************************************************)
(* SpecCompile: kenken_csp_model(kenken_grid), one puzzle row per step.    *)
(***************************************************************************)
\* the cells the rows of a puzzle description name: two neighbours stand for
\* all, the compiler treating every cell alike
NamedCells(N) == {c \in {11, 12} : CellI(c) < N /\ CellJ(c) < N}

ForcedRows(N) == {<< c, v >> : c \in NamedCells(N), v \in 1..N}

CageRows(N) ==
    {r \in NamedCells(N) \X NamedCells(N) \X (1..MaxVal) \X (0..3) : r[1] # r[2]}

\* a puzzle description: the size row, then forced and cage rows in any order;
\* no two forced rows name the same cell
Puzzles(N) ==
    {<< << N >> >> \o rs : rs \in
        {r \in UNION {[1..k -> ForcedRows(N) \cup CageRows(N)] : k \in 0..MaxRows} :
            \A a, b \in 1..Len(r) :
                (Len(r[a]) = 2 /\ Len(r[b]) = 2 /\ r[a][1] = r[b][1]) => a = b}}

BuildState == [heap |-> heap, vars |-> vars, cons |-> cons]

CompileInit ==
    /\ \E N \in 1..MaxSize : kenken_grid \in Puzzles(N)
    /\ rowIdx = 1
    /\ heap = NewBoard(kenken_grid[1][1]).heap
    /\ vars = NewBoard(kenken_grid[1][1]).vars
    /\ cons = <<>>
    /\ csp = CSP
    /\ pc = "cages"
    /\ CageIdle /\ GridIdle /\ HeurIdle

\* line 178: the size row
RowSkip ==
    /\ pc = "cages" /\ rowIdx <= Len(kenken_grid)
    /\ Len(kenken_grid[rowIdx]) = 1
    /\ rowIdx' = rowIdx + 1
    /\ UNCHANGED <<kenken_grid, heap, vars, cons, csp, pc>>
    /\ UNCHANGED <<cageState, gridState, heurState>>

RowForced ==
    /\ pc = "cages" /\ rowIdx <= Len(kenken_grid)
    /\ Len(kenken_grid[rowIdx]) = 2
    /\ LET st == ForcedRow(BuildState, kenken_grid[rowIdx])
       IN heap' = st.heap /\ vars' = st.vars
    /\ rowIdx' = rowIdx + 1
    /\ UNCHANGED <<kenken_grid, cons, csp, pc>>
    /\ UNCHANGED <<cageState, gridState, heurState>>

RowCage ==
    /\ pc = "cages" /\ rowIdx <= Len(kenken_grid)
    /\ Len(kenken_grid[rowIdx]) > 2
    /\ cons' = CageRow(BuildState, kenken_grid[rowIdx]).cons
    /\ rowIdx' = rowIdx + 1
    /\ UNCHANGED <<kenken_grid, heap, vars, csp, pc>>
    /\ UNCHANGED <<cageState, gridState, heurState>>

\* lines 232-238
AddGridConstraints ==
    /\ pc = "cages" /\ rowIdx > Len(kenken_grid)
    /\ cons' = cons \o NaryLines(1, kenken_grid[1][1], BuildState)
    /\ pc' = "csp"
    /\ UNCHANGED <<kenken_grid, rowIdx, heap, vars, csp>>
    /\ UNCHANGED <<cageState, gridState, heurState>>

\* lines 241-248
ConstructCSP ==
    /\ pc = "csp"
    /\ csp' = BuildCSP(BuildState)
    /\ pc' = "done"
    /\ UNCHANGED <<kenken_grid, rowIdx, heap, vars, cons>>
    /\ UNCHANGED <<cageState, gridState, heurState>>

CompileNext == RowSkip \/ RowForced \/ RowCage \/ AddGridConstraints \/ ConstructCSP

SpecCompile == CompileInit /\ [][CompileNext]_allVars

(***************************************************************************)
(* SpecGrid: the Problems of binary_ne_grid and nary_ad_grid against an    *)
(* assignment of the cells that a search assigns and unassigns cell by     *)
(* cell.  asg[(i-1)*gridSize + j] is the value of cell (i, j), 0 if none.      *)
(***************************************************************************)
GridInit ==
    /\ gridSize \in 1..MaxGrid
    /\ asg = [k \in 1..(gridSize * gridSize) |-> 0]
    /\ accB = "unknown" /\ accN = "unknown"
    /\ CageIdle /\ CompileIdle /\ HeurIdle

Full(a) == \A k \in 1..Len(a) : a[k] # 0

\* every constraint of the Problem holds of the assignment
Accepts(m, a) ==
    \A n \in 1..Len(m.csp.cons) :
        LET c == m.csp.cons[n]
        IN check(c, [k \in 1..Len(c.scope) |->
                        a[(m.heap[c.scope[k]].name[1] - 1) * Len(m.vars)
                          + m.heap[c.scope[k]].name[2]]])

GridAssign ==
    /\ \E k \in 1..Len(asg), v \in 1..gridSize :
          /\ asg[k] = 0
          /\ asg' = [asg EXCEPT ![k] = v]
    /\ UNCHANGED <<gridSize, accB, accN>>
    /\ UNCHANGED <<cageState, compileState, heurState>>

GridUnassign ==
    /\ \E k \in 1..Len(asg) :
          /\ asg[k] # 0
          /\ asg' = [asg EXCEPT ![k] = 0]
    /\ accB' = "unknown" /\ accN' = "unknown"
    /\ UNCHANGED gridSize
    /\ UNCHANGED <<cageState, compileState, heurState>>

CheckBinary ==
    /\ Full(asg) /\ accB = "unknown"
    /\ accB' = IF Accepts(binary_ne_grid(<< << gridSize >> >>), asg) THEN "yes" ELSE "no"
    /\ UNCHANGED <<gridSize, asg, accN>>
    /\ UNCHANGED <<cageState, compileState, heurState>>

CheckNary ==
    /\ Full(asg) /\ accN = "unknown"
    /\ accN' = IF Accepts(nary_ad_grid(<< << gridSize >> >>), asg) THEN "yes" ELSE "no"
    /\ UNCHANGED <<gridSize, asg, accB>>
    /\ UNCHANGED <<cageState, compileState, heurState>>

GridNext == GridAssign \/ GridUnassign \/ CheckBinary \/ CheckNary

SpecGrid == GridInit /\ [][GridNext]_allVars

(***************************************************************************)
(* SpecHeur: a compiled Problem in the hands of the search engine, which   *)
(* assigns and unassigns Variables, prunes and restores values, and calls  *)
(* ord_dh, ord_mrv and val_lcv.  val_lcv runs one statement group per      *)
(* step, so that its tentative assignments are states of the model.        *)
(***************************************************************************)
\* the Problems the search runs on
Problems ==
    << kenken_csp_model(<< << 1 >> >>),
       kenken_csp_model(<< << 2 >>, << 21, 22, 3, 0 >> >>),
       kenken_csp_model(<< << 2 >>, << 11, 2 >>, << 21, 22, 1, 1 >> >>),
       kenken_csp_model(<< << 2 >>, << 12, 1 >>, << 22, 2 >> >>),
       binary_ne_grid(<< << 2 >> >>),
       nary_ad_grid(<< << 3 >> >>) >>

Problem == Problems[problem]

\* how far the search has gone: assigned Variables plus pruned values
Depth ==
    Cardinality({v \in 1..Len(assignedValue) : assignedValue[v] # None})
    + sum([v \in 1..Len(curdom) |->
              Cardinality({i \in 1..Len(curdom[v]) : ~curdom[v][i]})])

HeurInit ==
    /\ problem \in 1..Len(Problems)
    /\ assignedValue = [v \in 1..Len(Problems[problem].heap) |-> None]
    /\ curdom = [v \in 1..Len(Problems[problem].heap) |->
                    [i \in 1..Len(Problems[problem].heap[v].dom) |-> TRUE]]
    /\ hpc = "search"
    /\ lcv = NoLcv /\ ret = NoRet /\ entry = NoEntry /\ assignError = FALSE
    /\ CageIdle /\ CompileIdle /\ GridIdle

Others == <<cageState, compileState, gridState>>

SearchAssign ==
    /\ hpc = "search" /\ Depth < MaxOps
    /\ \E k \in 1..Len(Problem.csp.vars) :
          LET v == Problem.csp.vars[k]
          IN \E i \in 1..Len(Problem.heap[v].dom) :
                /\ assign_ok(Problem, assignedValue, curdom, v, Problem.heap[v].dom[i])
                /\ assignedValue' =
                       assign(Problem, assignedValue, curdom, v, Problem.heap[v].dom[i])
    /\ ret' = NoRet /\ entry' = NoEntry
    /\ UNCHANGED <<problem, curdom, hpc, lcv, assignError>>
    /\ UNCHANGED Others

SearchUnassign ==
    /\ hpc = "search"
    /\ \E k \in 1..Len(Problem.csp.vars) :
          LET v == Problem.csp.vars[k]
          IN /\ is_assigned(assignedValue, v)
             /\ assignedValue' = unassign(assignedValue, v, assignedValue[v])
    /\ ret' = NoRet /\ entry' = NoEntry
    /\ UNCHANGED <<problem, curdom, hpc, lcv, assignError>>
    /\ UNCHANGED Others

\* Variable.prune_value(value), by the engine's propagator
SearchPrune ==
    /\ hpc = "search" /\ Depth < MaxOps
    /\ \E k \in 1..Len(Problem.csp.vars) :
          LET v == Problem.csp.vars[k]
          IN \E i \in 1..Len(curdom[v]) :
                /\ ~is_assigned(assignedValue, v)
                /\ curdom[v][i]
                /\ curdom' = [curdom EXCEPT ![v][i] = FALSE]
    /\ ret' = NoRet /\ entry' = NoEntry
    /\ UNCHANGED <<problem, assignedValue, hpc, lcv, assignError>>
    /\ UNCHANGED Others

\* Variable.unprune_value(value), on backtracking
SearchRestore ==
    /\ hpc = "search"
    /\ \E v \in 1..Len(curdom) : \E i \in 1..Len(curdom[v]) :
          /\ ~curdom[v][i]
          /\ curdom' = [curdom EXCEPT ![v][i] = TRUE]
    /\ ret' = NoRet /\ entry' = NoEntry
    /\ UNCHANGED <<problem, assignedValue, hpc, lcv, assignError>>
    /\ UNCHANGED Others

CallOrdDh ==
    /\ hpc = "search"
    /\ ret' = [fn |-> "ord_dh", var |-> 0, val |-> ord_dh(Problem, assignedValue)]
    /\ entry' = NoEntry
    /\ UNCHANGED <<problem, assignedValue, curdom, hpc, lcv, assignError>>
    /\ UNCHANGED Others

CallOrdMrv ==
    /\ hpc = "search"
    /\ ret' = [fn |-> "ord_mrv", var |-> 0,
               val |-> ord_mrv(Problem, assignedValue, curdom)]
    /\ entry' = NoEntry
    /\ UNCHANGED <<problem, assignedValue, curdom, hpc, lcv, assignError>>
    /\ UNCHANGED Others

\* val_lcv(csp, var) is entered with var unassigned; lines 56-57
LcvEnter ==
    /\ hpc = "search"
    /\ \E k \in 1..Len(Problem.csp.vars) :
          LET var == Problem.csp.vars[k]
          IN /\ ~is_assigned(assignedValue, var)
             /\ lcv' = [var |-> var,
                        doms |-> cur_domain(Problem, assignedValue, curdom, var),
                        i |-> 1, numPruned |-> 0, valOrder |-> <<>>]
    /\ entry' = [assignedValue |-> assignedValue, curdom |-> curdom]
    /\ ret' = NoRet
    /\ hpc' = "lcv_loop"
    /\ UNCHANGED <<problem, assignedValue, curdom, assignError>>
    /\ UNCHANGED Others

\* line 58: var.assign(d)
LcvAssign ==
    /\ hpc = "lcv_loop" /\ lcv.i <= Len(lcv.doms)
    /\ assignError' =
          (assignError
           \/ ~assign_ok(Problem, assignedValue, curdom, lcv.var, lcv.doms[lcv.i]))
    /\ assignedValue' = assign(Problem, assignedValue, curdom, lcv.var, lcv.doms[lcv.i])
    /\ hpc' = "lcv_count"
    /\ UNCHANGED <<problem, curdom, lcv, ret, entry>>
    /\ UNCHANGED Others

\* lines 60-65
LcvCount ==
    /\ hpc = "lcv_count"
    /\ lcv' = [lcv EXCEPT !.numPruned =
                  NumPruned(Problem, assignedValue, curdom,
                            get_cons_with_var(Problem, lcv.var))]
    /\ hpc' = "lcv_unassign"
    /\ UNCHANGED <<problem, assignedValue, curdom, ret, entry, assignError>>
    /\ UNCHANGED Others

\* lines 67-68
LcvUnassign ==
    /\ hpc = "lcv_unassign"
    /\ assignedValue' = LcvUndo(assignedValue, lcv.var, lcv.doms[lcv.i])
    /\ lcv' = [lcv EXCEPT !.valOrder = Append(@, << lcv.doms[lcv.i], lcv.numPruned >>),
                          !.i = @ + 1, !.numPruned = 0]
    /\ hpc' = "lcv_loop"
    /\ UNCHANGED <<problem, curdom, ret, entry, assignError>>
    /\ UNCHANGED Others

\* lines 70-71
LcvReturn ==
    /\ hpc = "lcv_loop" /\ lcv.i > Len(lcv.doms)
    /\ ret' = [fn |-> "val_lcv", var |-> lcv.var,
               val |-> [k \in 1..Len(lcv.valOrder) |-> sorted(lcv.valOrder)[k][1]]]
    /\ lcv' = NoLcv
    /\ hpc' = "search"
    /\ UNCHANGED <<problem, assignedValue, curdom, entry, assignError>>
    /\ UNCHANGED Others

HeurNext ==
    \/ SearchAssign \/ SearchUnassign \/ SearchPrune \/ SearchRestore
    \/ CallOrdDh \/ CallOrdMrv
    \/ LcvEnter \/ LcvAssign \/ LcvCount \/ LcvUnassign \/ LcvReturn

SpecHeur == HeurInit /\ [][HeurNext]_allVars

(***************************************************************************)
(* Claims about the cage arithmetic (SpecCage).                            *)
(***************************************************************************)
\* the Cartesian product of the cage cells' domains, as a set
ProductSet(doms) ==
    {t \in [1..Len(doms) -> 1..MaxDom] : \A i \in 1..Len(doms) : InSeq(t[i], doms[i])}

\* some ordering p0, p1, ..., pk of t has p0 - p1 - ... - pk = v: the ordering
\* matters only through the choice of p0
SubOrderingExists(t, v) == \E i \in 1..Len(t) : t[i] - sum(RemoveAt(t, i)) = v

\* some ordering of t has the exact quotient p0 / p1 / ... / pk = v
DivOrderingExists(t, v) == \E i \in 1..Len(t) : t[i] = v * prod(RemoveAt(t, i))

\* some ordering of t has the truncated quotient ((p0 div p1) div ...) = v
DivTruncatedExists(t, v) ==
    \E i \in 1..Len(t) : t[i] \div prod(RemoveAt(t, i)) = v

\* C2: a tuple of the product of the cage cells' domains is a satisfying
\* tuple of a subtraction cage iff some ordering of its values subtracts to
\* the target; both orders of an accepted pair are accepted; a cage with no
\* such tuple gets the empty satisfying set.
C2_SubtractionAnyOrdering ==
    (cpc = "added" /\ op = 1) =>
        /\ \A t \in ProductSet(varsDom) :
              InSeq(t, satTuples) <=> SubOrderingExists(t, val)
        /\ \A i \in 1..Len(satTuples) : satTuples[i] \in ProductSet(varsDom)
        /\ \A t \in ProductSet(varsDom) :
              (Len(t) = 2 /\ InSeq(t, satTuples) /\ <<t[2], t[1]>> \in ProductSet(varsDom))
                  => InSeq(<<t[2], t[1]>>, satTuples)
        /\ (\A t \in ProductSet(varsDom) : ~SubOrderingExists(t, val))
              => satTuples = <<>>

\* a three-cell subtraction cage has accepted a tuple whose positional order
\* does not subtract to the target, and has rejected another tuple
C2_Witness ==
    /\ cpc = "added" /\ op = 1 /\ Len(varsDom) = 3
    /\ \E t \in ProductSet(varsDom) : InSeq(t, satTuples) /\ SubResult(t) # val
    /\ \E t \in ProductSet(varsDom) : ~InSeq(t, satTuples)

\* C3: a tuple of the product of the cage cells' domains is a satisfying
\* tuple of a division cage iff some ordering of its values has the exact
\* quotient equal to the target; a quotient that reaches the target only by
\* truncation does not count.
C3_DivisionExactQuotient ==
    (cpc = "added" /\ op = 2) =>
        /\ \A t \in ProductSet(varsDom) :
              InSeq(t, satTuples) <=> DivOrderingExists(t, val)
        /\ \A i \in 1..Len(satTuples) : satTuples[i] \in ProductSet(varsDom)
        /\ \A t \in ProductSet(varsDom) :
              (DivTruncatedExists(t, val) /\ ~DivOrderingExists(t, val))
                  => ~InSeq(t, satTuples)

\* a division cage has accepted a tuple out of positional order and has
\* rejected a tuple whose truncated quotient is the target
C3_Witness ==
    /\ cpc = "added" /\ op = 2 /\ Len(varsDom) >= 2
    /\ \E t \in ProductSet(varsDom) :
          InSeq(t, satTuples) /\ ~QuotEq(DivResult(t), val)
    /\ \E t \in ProductSet(varsDom) :
          DivTruncatedExists(t, val) /\ ~InSeq(t, satTuples)

\* C10: the list passed to add_satisfying_tuples holds each tuple at most once.
C10_NoDuplicateTuples ==
    cpc = "added" =>
        \A i, j \in 1..Len(satTuples) : satTuples[i] = satTuples[j] => i = j

(***************************************************************************)
(* Claims about kenken_csp_model (SpecCompile).                            *)
(***************************************************************************)
ForcedRowsOf(g) == {k \in 1..Len(g) : Len(g[k]) = 2}

CageRowsOf(g) == {k \in 1..Len(g) : Len(g[k]) > 2}

\* C8: for every forced row [c, v] the returned board holds at
\* [c div 10 - 1][c mod 10 - 1] a Variable of domain exactly {v}, which is the
\* one registered in the Problem for that cell; the forced row adds no
\* constraint; every cell no forced row names keeps the domain 1..N.
C8_ForcedCellSingleton ==
    pc = "done" =>
        LET size == kenken_grid[1][1]
        IN /\ \A k \in ForcedRowsOf(kenken_grid) :
                 LET c == kenken_grid[k][1]
                     id == vars[c \div 10][c % 10]
                 IN /\ heap[id].dom = << kenken_grid[k][2] >>
                    /\ csp.vars[((c \div 10) - 1) * size + (c % 10)] = id
                    /\ Count(id, csp.vars) = 1
           /\ Len(csp.vars) = size * size
           /\ Len(csp.cons) = Cardinality(CageRowsOf(kenken_grid)) + 2 * size
           /\ \A i, j \in 1..size :
                 (\A k \in ForcedRowsOf(kenken_grid) : kenken_grid[k][1] # 10 * i + j)
                     => heap[vars[i][j]].dom = Dom(size)

\* a 2 x 2 (or larger) puzzle with a forced row for cell 12 and a cage row has
\* been compiled
C8_Witness ==
    /\ pc = "done"
    /\ kenken_grid[1][1] >= 2
    /\ \E k \in ForcedRowsOf(kenken_grid) : kenken_grid[k][1] = 12
    /\ CageRowsOf(kenken_grid) # {}

\* C9: in the returned Problem every variable in the scope of every
\* constraint is the Variable the returned board holds at that cell and is
\* registered in the Problem, and the constraint's satisfying tuples carry at
\* that position only values of that Variable's domain, whatever the order of
\* the forced and the cage rows.
C9_ConstraintsOverBoardVariables ==
    pc = "done" =>
        \A n \in 1..Len(csp.cons) :
            LET c == csp.cons[n]
            IN \A k \in 1..Len(c.scope) :
                  LET id == c.scope[k]
                      b == vars[heap[id].name[1]][heap[id].name[2]]
                  IN /\ id = b
                     /\ InSeq(id, csp.vars)
                     /\ \A m \in 1..Len(c.sat) : InSeq(c.sat[m][k], heap[b].dom)

(***************************************************************************)
(* Claims about the grid models (SpecGrid).                                *)
(***************************************************************************)
\* no value is repeated in any row or any column
LatinLines(a, n) ==
    \A i, j, k \in 1..n :
        j # k => /\ a[(i - 1) * n + j] # a[(i - 1) * n + k]
                 /\ a[(j - 1) * n + i] # a[(k - 1) * n + i]

C4_WitnessRejected == gridSize >= 2 /\ accB = "no" /\ accN = "no"

(***************************************************************************)
(* Claims about the heuristics (SpecHeur).                                 *)
(***************************************************************************)
Unassigned == get_all_unasgn_vars(Problem, assignedValue)

\* the distinct unassigned Variables other than v that share a constraint with v
Neighbours(v) ==
    {u \in 1..Len(assignedValue) :
        /\ u # v /\ assignedValue[u] = None
        /\ \E n \in 1..Len(Problem.csp.cons) :
              InSeq(v, Problem.csp.cons[n].scope) /\ InSeq(u, Problem.csp.cons[n].scope)}

Degree(v) == Cardinality(Neighbours(v))

\* C1: with an unassigned variable left, ord_dh returns the first variable in
\* get_all_unasgn_vars() order whose degree is maximal, the degree of v being
\* the number of distinct unassigned variables other than v that share a
\* constraint with v (a variable sharing two constraints with v counts once).
C1_DegreeCountsDistinctNeighbours ==
    (ret.fn = "ord_dh" /\ Unassigned # <<>>) =>
        \E k \in 1..Len(Unassigned) :
            /\ Unassigned[k] = ret.val
            /\ \A j \in 1..Len(Unassigned) : Degree(Unassigned[j]) <= Degree(ret.val)
            /\ \A j \in 1..(k - 1) : Degree(Unassigned[j]) < Degree(ret.val)

\* the current domain of v as the search left it when val_lcv was entered
EntryDomain(v) == cur_domain(Problem, entry.assignedValue, entry.curdom, v)

\* the (constraint, other unassigned Variable, value of its current domain)
\* triples without support once var is assigned d
Unsupported(var, d) ==
    LET av == [entry.assignedValue EXCEPT ![var] = d]
        cs == Problem.csp.cons
        touching == {n \in 1..Len(cs) : InSeq(var, cs[n].scope)}
        others(n) == {u \in 1..Len(av) : InSeq(u, cs[n].scope) /\ u # var /\ av[u] = None}
        lost(n, u) == {i \in 1..Len(Problem.heap[u].dom) :
                          /\ entry.curdom[u][i]
                          /\ ~has_support(Problem, av, entry.curdom, cs[n], u,
                                          Problem.heap[u].dom[i])}
    IN UNION {UNION {{<< n, u, i >> : i \in lost(n, u)} : u \in others(n)} : n \in touching}

PruningCount(var, d) == Cardinality(Unsupported(var, d))

IndexOf(x, s) == CHOOSE i \in 1..Len(s) : s[i] = x

\* C5: on return from val_lcv the assignments and the current domains are
\* those on entry and var is unassigned; during the call the other Variables
\* and all current domains stay put, var holds exactly the value being probed
\* between assign and unassign and no value before the next assign, and no
\* assign is refused.
C5_LcvRestoresState ==
    /\ ret.fn = "val_lcv" =>
          /\ assignedValue = entry.assignedValue
          /\ curdom = entry.curdom
          /\ assignedValue[ret.var] = None
    /\ hpc \in {"lcv_loop", "lcv_count", "lcv_unassign"} =>
          /\ curdom = entry.curdom
          /\ \A v \in 1..Len(assignedValue) :
                v # lcv.var => assignedValue[v] = entry.assignedValue[v]
    /\ hpc = "lcv_loop" => assignedValue[lcv.var] = None
    /\ hpc \in {"lcv_count", "lcv_unassign"} => assignedValue[lcv.var] = lcv.doms[lcv.i]
    /\ ~assignError

\* val_lcv has returned for a Variable with several values, in a state in
\* which the search has assigned another Variable
C5_Witness ==
    /\ ret.fn = "val_lcv" /\ Len(ret.val) >= 2
    /\ \E v \in 1..Len(assignedValue) : assignedValue[v] # None

\* C6: val_lcv returns a permutation of var's current domain in ascending
\* order of pruning count, values of equal count in their current-domain order.
C6_LcvAscendingStable ==
    ret.fn = "val_lcv" =>
        LET dom0 == EntryDomain(ret.var)
        IN /\ Len(ret.val) = Len(dom0)
           /\ \A i \in 1..Len(dom0) : Count(dom0[i], ret.val) = 1
           /\ \A a, b \in 1..Len(ret.val) :
                 a < b =>
                    /\ PruningCount(ret.var, ret.val[a]) <= PruningCount(ret.var, ret.val[b])
                    /\ PruningCount(ret.var, ret.val[a]) = PruningCount(ret.var, ret.val[b])
                          => IndexOf(ret.val[a], dom0) < IndexOf(ret.val[b], dom0)

\* val_lcv has reordered a domain of three values, two of them of equal count
C6_Witness ==
    /\ ret.fn = "val_lcv" /\ Len(ret.val) = 3
    /\ ret.val # EntryDomain(ret.var)
    /\ \E a, b \in 1..3 :
          a # b /\ PruningCount(ret.var, ret.val[a]) = PruningCount(ret.var, ret.val[b])

DomainSize(v) == Len(cur_domain(Problem, assignedValue, curdom, v))

\* C7: ord_mrv returns an unassigned variable of minimal current-domain size,
\* the first such in get_all_unasgn_vars() order, and None exactly when no
\* unassigned variable remains.
C7_MrvFirstMinimal ==
    ret.fn = "ord_mrv" =>
        /\ (ret.val = None) <=> (Unassigned = <<>>)
        /\ Unassigned # <<>> =>
              \E k \in 1..Len(Unassigned) :
                  /\ Unassigned[k] = ret.val
                  /\ \A j \in 1..Len(Unassigned) :
                        DomainSize(ret.val) <= DomainSize(Unassigned[j])
                  /\ \A j \in 1..(k - 1) : DomainSize(Unassigned[j]) > DomainSize(ret.val)

\* ord_mrv has returned a Variable that is not the first unassigned one, with
\* a later Variable of the same minimal size
C7_Witness ==
    /\ ret.fn = "ord_mrv" /\ ret.val # None
    /\ ret.val # Unassigned[1]
    /\ \E j \in 1..Len(Unassigned) :
          /\ IndexOf(ret.val, Unassigned) < j
          /\ DomainSize(Unassigned[j]) = DomainSize(ret.val)

\* ord_mrv has returned None
C7_WitnessNone == ret.fn = "ord_mrv" /\ ret.val = None

====
